---------------------------- MODULE Spec2Model ----------------------------
(***************************************************************************)
(* A model of the snmp-parser decoding pipeline.                           *)
(*                                                                         *)
(* The decoder is a pure function from a byte buffer to a result.  The     *)
(* state of the model is the datagram as it was built (shape), the buffer  *)
(* handed to the decoder (input, the encoding of shape), the entry point   *)
(* that was called (entry) and what it returned (result).  Init draws the  *)
(* datagram from families of messages; one action per public entry point   *)
(* applies the decoder to the buffer.                                      *)
(*                                                                         *)
(* The loop of the VarBindList is also modelled step by step: unread is    *)
(* what the loop has still to read of the body of the list, res the        *)
(* variables it has collected and pc its position.  A call of an entry     *)
(* point runs the loop to its end within the call and leaves these alone.  *)
(*                                                                         *)
(* Bytes are naturals in 0..255 and a buffer is a sequence of bytes.  A    *)
(* parser result is a record                                               *)
(*    [ok, err, detail, rem, val]                                          *)
(* where ok is TRUE for Ok((rem, val)); otherwise err names the error      *)
(* (an SnmpError variant, "Incomplete" for nom::Err::Incomplete, or        *)
(* "Panic" when the Rust code panics) and detail the BER error kind.       *)
(***************************************************************************)
EXTENDS Naturals, Integers, Sequences, FiniteSets, TLC

VARIABLES shape, input, entry, result, unread, res, pc

vars == <<shape, input, entry, result, unread, res, pc>>

-----------------------------------------------------------------------------
(* Results                                                                 *)

NoVal == [t |-> "None"]

Ok(rem, val) == [ok |-> TRUE, err |-> "", detail |-> "", rem |-> rem, val |-> val]

Fail(err, detail) == [ok |-> FALSE, err |-> err, detail |-> detail, rem |-> <<>>, val |-> NoVal]

BerFail(kind) == Fail("BerError", kind)

Incomplete == Fail("Incomplete", "")

Panic(what) == Fail("Panic", what)

Take(s, n) == SubSeq(s, 1, n)

Drop(s, n) == SubSeq(s, n + 1, Len(s))

(* Sequencing, as `?` and the `>>` of do_parse! do it: K goes on with the  *)
(* result r of the step before it when that step succeeded, and r's        *)
(* failure is the outcome otherwise.  The step is bound to x so that its   *)
(* result is computed once, as the code that runs it once does.            *)
Then(r, K(_)) == CHOOSE y \in {IF x.ok THEN K(x) ELSE x : x \in {r}} : TRUE

(* A match on a result: K is given r, success or failure. *)
Bind(r, K(_)) == CHOOSE y \in {K(x) : x \in {r}} : TRUE

-----------------------------------------------------------------------------
(* BER primitive layer, as the decoder uses it                             *)

ClassUniversal == 0
ClassApplication == 1
ClassContext == 2

TagInteger == 2
TagBitString == 3
TagOctetString == 4
TagNull == 5
TagOid == 6
TagSequence == 16

(* Integers are kept as their big-endian base-256 digits without leading   *)
(* zeros, so that a value of any width is exact: zero is <<>>, and a value *)
(* fits in u32 (u64) iff it has at most 4 (8) digits.                      *)
RECURSIVE trim(_)
trim(s) == IF Len(s) > 0 /\ s[1] = 0 THEN trim(SubSeq(s, 2, Len(s))) ELSE s

(* The digits of a number below 256. *)
U(n) == IF n = 0 THEN <<>> ELSE <<n>>

U32Bytes == 4

U64Bytes == 8

(* Lengths are only compared with buffer sizes: a length of more than      *)
(* three significant octets is more than any buffer and is kept as         *)
(* LengthCap.                                                              *)
LengthCap == 16777216

length_value(s) ==
    Bind(trim(s), LAMBDA d :
      CASE Len(d) = 0 -> 0
        [] Len(d) = 1 -> d[1]
        [] Len(d) = 2 -> d[1] * 256 + d[2]
        [] Len(d) = 3 -> (d[1] * 256 + d[2]) * 256 + d[3]
        [] OTHER -> LengthCap)

RECURSIVE read_high_tag(_, _, _)
(* High-tag-number form: base-128 digits, the last one with bit 8 clear;   *)
(* at most four digits are accepted.                                       *)
read_high_tag(i, acc, n) ==
    IF Len(i) = 0 THEN Incomplete
    ELSE IF n >= 4 THEN BerFail("InvalidTag")
    ELSE LET b == i[1] IN
         IF b >= 128 THEN read_high_tag(Drop(i, 1), acc * 128 + (b - 128), n + 1)
         ELSE Ok(Drop(i, 1), acc * 128 + b)

(* The length octets of a header: short form, or long form with 1..4       *)
(* octets.  The indefinite form (0x80) and the reserved octet 0xFF are     *)
(* refused.                                                                *)
read_length(i) ==
    IF Len(i) = 0 THEN Incomplete
    ELSE LET l == i[1] IN
         IF l < 128 THEN Ok(Drop(i, 1), l)
         ELSE IF l = 128 \/ l = 255 THEN BerFail("InvalidLength")
         ELSE LET n == l - 128 IN
              IF n > 4 THEN BerFail("InvalidLength")
              ELSE IF Len(i) < 1 + n THEN Incomplete
              ELSE Ok(Drop(i, 1 + n), length_value(SubSeq(i, 2, 1 + n)))

(* Reads an identifier and a length; val is the header                     *)
(* [class, structured, tag, len].                                          *)
ber_read_element_header(i) ==
    IF Len(i) = 0 THEN Incomplete
    ELSE Then(IF i[1] % 32 = 31 THEN read_high_tag(Drop(i, 1), 0, 0)
              ELSE Ok(Drop(i, 1), i[1] % 32), LAMBDA t :
         Then(read_length(t.rem), LAMBDA l :
           Ok(l.rem, [class |-> i[1] \div 64, structured |-> (i[1] \div 32) % 2,
                      tag |-> t.val, len |-> l.val])))

(* take!(n) *)
take(i, n) ==
    IF Len(i) < n THEN Incomplete ELSE Ok(Drop(i, n), Take(i, n))


(* BerObjectContent::as_u32 / as_u64 on an Integer content slice: the      *)
(* unsigned big-endian value (bytes_to_u64 takes at most 8 octets),        *)
(* refused when it does not fit.                                           *)
as_u64(bytes) ==
    IF Len(bytes) > U64Bytes THEN BerFail("IntegerTooLarge")
    ELSE Ok(<<>>, trim(bytes))

(* A variant of as_u32 that keeps the low 32 bits of a value that does not *)
(* fit.                                                                    *)
as_u32_wrapping(bytes) ==
    IF Len(bytes) > U64Bytes THEN BerFail("IntegerTooLarge")
    ELSE Bind(trim(bytes), LAMBDA d :
           Ok(<<>>, IF Len(d) > U32Bytes THEN trim(Drop(d, Len(d) - U32Bytes)) ELSE d))

as_u32(bytes) ==
    IF Len(bytes) > U64Bytes THEN BerFail("IntegerTooLarge")
    ELSE IF Len(trim(bytes)) > U32Bytes THEN BerFail("IntegerTooLarge")
    ELSE Ok(<<>>, trim(bytes))

StringTags == {12} \cup (18..30)

RECURSIVE parse_ber(_)
RECURSIVE ber_read_element_content_as(_, _, _, _)
RECURSIVE ber_read_children(_)

(* Decodes len bytes of content as the universal type tag.  val is         *)
(* [kind, bytes]; a constructed type carries its raw content, which must   *)
(* itself be a series of well-formed elements.                             *)
ber_read_element_content_as(i, tag, len, constructed) ==
    IF Len(i) < len THEN Incomplete
    ELSE LET c == Take(i, len)
             r == Drop(i, len)
         IN CASE tag = 0 ->
                   IF len # 0 THEN BerFail("InvalidLength")
                   ELSE Ok(r, [kind |-> "EndOfContent", bytes |-> c])
              [] tag = 1 ->
                   IF constructed = 1 THEN BerFail("ConstructUnexpected")
                   ELSE IF len # 1 THEN BerFail("InvalidLength")
                   ELSE Ok(r, [kind |-> "Boolean", bytes |-> c])
              [] tag = TagInteger ->
                   IF constructed = 1 THEN BerFail("ConstructUnexpected")
                   ELSE Ok(r, [kind |-> "Integer", bytes |-> c])
              [] tag = TagBitString ->
                   IF constructed = 1 THEN BerFail("Unsupported")
                   ELSE IF len = 0 THEN BerFail("InvalidLength")
                   ELSE Ok(r, [kind |-> "BitString", bytes |-> c])
              [] tag = TagOctetString ->
                   IF constructed = 1 THEN BerFail("Unsupported")
                   ELSE Ok(r, [kind |-> "OctetString", bytes |-> c])
              [] tag = TagNull ->
                   IF constructed = 1 THEN BerFail("ConstructUnexpected")
                   ELSE IF len # 0 THEN BerFail("InvalidLength")
                   ELSE Ok(r, [kind |-> "Null", bytes |-> c])
              [] tag = TagOid ->
                   IF constructed = 1 THEN BerFail("ConstructUnexpected")
                   ELSE IF len = 0 THEN BerFail("InvalidLength")
                   ELSE Ok(r, [kind |-> "OID", bytes |-> c])
              [] tag \in {TagSequence, 17} ->
                   IF constructed = 0 THEN BerFail("ConstructExpected")
                   ELSE Then(ber_read_children(c), LAMBDA k :
                          Ok(r, [kind |-> IF tag = TagSequence THEN "Sequence" ELSE "Set",
                                 bytes |-> c]))
              [] tag \in StringTags ->
                   IF constructed = 1 THEN BerFail("Unsupported")
                   ELSE Ok(r, [kind |-> "String", bytes |-> c])
              [] OTHER -> BerFail("UnknownTag")

(* parse_ber: any element.  Application and context-specific elements,     *)
(* and universal ones of an unknown tag, are kept as Unknown(content).     *)
parse_ber(i) ==
    Then(ber_read_element_header(i), LAMBDA h :
    Bind(IF h.val.class \in {ClassApplication, ClassContext} THEN BerFail("UnknownTag")
         ELSE ber_read_element_content_as(h.rem, h.val.tag, h.val.len, h.val.structured),
         LAMBDA c :
      IF c.ok THEN Ok(c.rem, [header |-> h.val, kind |-> c.val.kind, bytes |-> c.val.bytes])
      ELSE IF c.detail = "UnknownTag"
           THEN Then(take(h.rem, h.val.len), LAMBDA t :
                  Ok(t.rem, [header |-> h.val, kind |-> "Unknown", bytes |-> t.val]))
           ELSE c))

(* The elements of a constructed content, read until it is exhausted.      *)
ber_read_children(c) ==
    IF Len(c) = 0 THEN Ok(<<>>, <<>>)
    ELSE Then(parse_ber(c), LAMBDA o :
         Then(ber_read_children(o.rem), LAMBDA k :
           Ok(<<>>, <<o.val>> \o k.val)))

(* parse_ber_with_tag: the header's tag number must be tag (its class is   *)
(* not looked at), then the content is read as that type.                  *)
parse_ber_with_tag(i, tag) ==
    Then(ber_read_element_header(i), LAMBDA h :
      IF h.val.tag # tag THEN BerFail("InvalidTag")
      ELSE Then(ber_read_element_content_as(h.rem, h.val.tag, h.val.len, h.val.structured),
                LAMBDA c :
             Ok(c.rem, [header |-> h.val, kind |-> c.val.kind, bytes |-> c.val.bytes])))

parse_ber_integer(i) == parse_ber_with_tag(i, TagInteger)

parse_ber_octetstring(i) == parse_ber_with_tag(i, TagOctetString)

parse_ber_oid(i) == parse_ber_with_tag(i, TagOid)

(* map_res!(parse_ber_integer, |o| o.as_u32()) *)
parse_ber_u32(i) ==
    Then(parse_ber_integer(i), LAMBDA o :
    Bind(as_u32(o.val.bytes), LAMBDA v :
      IF ~v.ok THEN BerFail("MapRes") ELSE Ok(o.rem, v.val)))

-----------------------------------------------------------------------------
(* SNMP v1 / v2c: values, VarBinds and PDUs                                *)

(* parse_der_struct!(i, TAG tag, ...): the header must be constructed with *)
(* tag number tag; exactly hdr.len bytes are handed to the inner parser    *)
(* (flat_take!), whose own remainder is dropped.  val is that content, rem *)
(* what follows the element.                                               *)
parse_der_struct(i, tag) ==
    Then(ber_read_element_header(i), LAMBDA h :
      IF ~(h.val.structured = 1 /\ h.val.tag = tag) THEN BerFail("Verify")
      ELSE take(h.rem, h.val.len))

(* Integer content of an application type narrowed to u32 or u64. *)
app_integer(rem, hdr, t, conv) ==
    Then(ber_read_element_content_as(rem, TagInteger, hdr.len, hdr.structured), LAMBDA c :
    Bind(IF conv = "u64" THEN as_u64(c.val.bytes) ELSE as_u32(c.val.bytes), LAMBDA v :
      IF ~v.ok THEN BerFail("MapRes") ELSE Ok(c.rem, [t |-> t, v |-> v.val])))

app_bytes(rem, hdr, t) ==
    Then(take(rem, hdr.len), LAMBDA c :
      Ok(c.rem, [t |-> t, tag |-> hdr.tag, bytes |-> c.val]))

(* A variant of application_syntax that refuses the application tags it    *)
(* has no name for.                                                        *)
application_syntax_known_only(rem, hdr) ==
    CASE hdr.tag = 0 ->
           Then(ber_read_element_content_as(rem, TagOctetString, hdr.len, hdr.structured),
                LAMBDA c :
             IF Len(c.val.bytes) = 4
             THEN Ok(c.rem, [t |-> "IpAddress", addr |-> c.val.bytes])
             ELSE BerFail("MapRes"))
      [] hdr.tag \in {1, 2, 3, 7} ->
           app_integer(rem, hdr,
                       CASE hdr.tag = 1 -> "Counter32"
                         [] hdr.tag = 2 -> "Gauge32"
                         [] hdr.tag = 3 -> "TimeTicks"
                         [] hdr.tag = 7 -> "UInteger32",
                       "u32")
      [] hdr.tag = 6 -> app_integer(rem, hdr, "Counter64", "u64")
      [] hdr.tag \in {4, 5} ->
           app_bytes(rem, hdr, IF hdr.tag = 4 THEN "Opaque" ELSE "NsapAddress")
      [] OTHER -> BerFail("InvalidTag")

(* The arms of parse_objectsyntax for an application-class header. *)
application_syntax(rem, hdr) ==
    CASE hdr.tag = 0 ->
           Then(ber_read_element_content_as(rem, TagOctetString, hdr.len, hdr.structured),
                LAMBDA c :
             IF Len(c.val.bytes) = 4
             THEN Ok(c.rem, [t |-> "IpAddress", addr |-> c.val.bytes])
             ELSE BerFail("MapRes"))
      [] hdr.tag \in {1, 2, 3, 7} ->
           app_integer(rem, hdr,
                       CASE hdr.tag = 1 -> "Counter32"
                         [] hdr.tag = 2 -> "Gauge32"
                         [] hdr.tag = 3 -> "TimeTicks"
                         [] hdr.tag = 7 -> "UInteger32",
                       "u32")
      [] hdr.tag = 6 -> app_integer(rem, hdr, "Counter64", "u64")
      [] OTHER ->
           app_bytes(rem, hdr,
                     CASE hdr.tag = 4 -> "Opaque"
                       [] hdr.tag = 5 -> "NsapAddress"
                       [] OTHER -> "UnknownApplication")

(* The arm of parse_objectsyntax for a header of another class: the        *)
(* content is read as the universal type of the header's tag.              *)
simple_syntax(rem, hdr) ==
    IF hdr.len = 0 THEN Ok(rem, [t |-> "Empty"])
    ELSE Then(ber_read_element_content_as(rem, hdr.tag, hdr.len, hdr.structured), LAMBDA c :
           CASE c.val.kind = "Integer" -> Ok(c.rem, [t |-> "Number", bytes |-> c.val.bytes])
             [] c.val.kind = "OctetString" ->
                  Ok(c.rem, [t |-> "String", bytes |-> c.val.bytes])
             [] c.val.kind = "OID" -> Ok(c.rem, [t |-> "Object", bytes |-> c.val.bytes])
             [] c.val.kind = "BitString" ->
                  Ok(c.rem, [t |-> "BitString", bytes |-> c.val.bytes])
             [] c.val.kind = "Null" -> Ok(c.rem, [t |-> "Empty"])
             [] OTHER ->
                  Ok(c.rem, [t |-> "UnknownSimple", tag |-> hdr.tag, bytes |-> c.val.bytes]))

parse_objectsyntax(i) ==
    Then(ber_read_element_header(i), LAMBDA h :
      IF h.val.class = ClassApplication THEN application_syntax(h.rem, h.val)
      ELSE simple_syntax(h.rem, h.val))

(* SEQUENCE { oid, value }; bytes of the body after the value are ignored. *)
parse_varbind(i) ==
    Then(parse_der_struct(i, TagSequence), LAMBDA s :
    Then(parse_ber_oid(s.val), LAMBDA oid :
    Then(parse_objectsyntax(oid.rem), LAMBDA val :
      Ok(s.rem, [oid |-> oid.val.bytes, val |-> val.val]))))

RECURSIVE many0_varbind_rev(_)
(* A variant of many0_varbind that collects the VarBinds last first. *)
many0_varbind_rev(i) ==
    Bind(parse_varbind(i), LAMBDA v :
      IF ~v.ok THEN Ok(i, <<>>)
      ELSE Bind(many0_varbind_rev(v.rem), LAMBDA more : Ok(more.rem, more.val \o <<v.val>>)))

RECURSIVE many0_varbind(_)
(* many0!(complete!(parse_varbind)): collects VarBinds until the first one *)
(* that does not decode, which ends the list without an error.             *)
many0_varbind(i) ==
    Bind(parse_varbind(i), LAMBDA v :
      IF ~v.ok THEN Ok(i, <<>>)
      ELSE Bind(many0_varbind(v.rem), LAMBDA more : Ok(more.rem, <<v.val>> \o more.val)))

(* One iteration of many0!(complete!(parse_varbind)) on the unread bytes   *)
(* i.  A VarBind that does not decode ends the loop with what was          *)
(* collected; one that decodes without consuming a byte ends it with an    *)
(* error; otherwise the loop goes on after the VarBind, which it pushes.   *)
many0_step_keep_input(i) ==
    Bind(parse_varbind(i), LAMBDA v :
      IF ~v.ok THEN [done |-> TRUE, ok |-> TRUE, rem |-> i, val |-> NoVal]
      ELSE IF Len(v.rem) = Len(i) THEN [done |-> TRUE, ok |-> FALSE, rem |-> i, val |-> NoVal]
      ELSE [done |-> FALSE, ok |-> TRUE, rem |-> i, val |-> v.val])

many0_step(i) ==
    Bind(parse_varbind(i), LAMBDA v :
      IF ~v.ok THEN [done |-> TRUE, ok |-> TRUE, rem |-> i, val |-> NoVal]
      ELSE IF Len(v.rem) = Len(i) THEN [done |-> TRUE, ok |-> FALSE, rem |-> i, val |-> NoVal]
      ELSE [done |-> FALSE, ok |-> TRUE, rem |-> v.rem, val |-> v.val])

parse_varbind_list(i) ==
    Then(parse_der_struct(i, TagSequence), LAMBDA s :
      Ok(s.rem, many0_varbind(s.val).val))

(* A variant of parse_networkaddress that takes the first four octets of a *)
(* longer content.                                                         *)
parse_networkaddress_ge4(i) ==
    Then(parse_ber(i), LAMBDA o :
      IF o.val.header.tag # 0 \/ o.val.header.class # ClassApplication
      THEN BerFail("InvalidTag")
      ELSE IF o.val.kind = "Unknown" /\ Len(o.val.bytes) >= 4
           THEN Ok(o.rem, Take(o.val.bytes, 4))
      ELSE BerFail("InvalidTag"))

parse_networkaddress(i) ==
    Then(parse_ber(i), LAMBDA o :
      IF o.val.header.tag # 0 \/ o.val.header.class # ClassApplication
      THEN BerFail("InvalidTag")
      ELSE IF o.val.kind = "Unknown" /\ Len(o.val.bytes) = 4 THEN Ok(o.rem, o.val.bytes)
      ELSE BerFail("InvalidTag"))

(* parse_ber_implicit(BerTag(3), integer content), then as_u32. *)
parse_timeticks(i) ==
    Then(ber_read_element_header(i), LAMBDA h :
      IF h.val.tag # 3 THEN BerFail("InvalidTag")
      ELSE Then(ber_read_element_content_as(h.rem, TagInteger, h.val.len, 0), LAMBDA c :
           Bind(as_u32(c.val.bytes), LAMBDA v :
             IF ~v.ok THEN BerFail("MapRes") ELSE Ok(c.rem, v.val))))

parse_snmp_v1_generic_pdu(pdu, tag) ==
    Then(parse_ber_u32(pdu), LAMBDA req_id :
    Then(parse_ber_u32(req_id.rem), LAMBDA err :
    Then(parse_ber_u32(err.rem), LAMBDA err_index :
    Then(parse_varbind_list(err_index.rem), LAMBDA var_bindings :
      Ok(var_bindings.rem,
         [t |-> "Generic", pdu_type |-> tag, req_id |-> req_id.val,
          err |-> err.val, err_index |-> err_index.val, var |-> var_bindings.val])))))

parse_snmp_v1_bulk_pdu(pdu) ==
    Then(parse_ber_u32(pdu), LAMBDA req_id :
    Then(parse_ber_u32(req_id.rem), LAMBDA non_repeaters :
    Then(parse_ber_u32(non_repeaters.rem), LAMBDA max_repetitions :
    Then(parse_varbind_list(max_repetitions.rem), LAMBDA var_bindings :
      Ok(var_bindings.rem,
         [t |-> "Bulk", req_id |-> req_id.val, non_repeaters |-> non_repeaters.val,
          max_repetitions |-> max_repetitions.val, var |-> var_bindings.val])))))

(* `x as u8`: the low octet. *)
as_u8(d) == IF Len(d) = 0 THEN 0 ELSE d[Len(d)]

parse_snmp_v1_trap_pdu(pdu) ==
    Then(parse_ber_oid(pdu), LAMBDA enterprise :
    Then(parse_networkaddress(enterprise.rem), LAMBDA agent_addr :
    Then(parse_ber_u32(agent_addr.rem), LAMBDA generic_trap :
    Then(parse_ber_u32(generic_trap.rem), LAMBDA specific_trap :
    Then(parse_timeticks(specific_trap.rem), LAMBDA timestamp :
    Then(parse_varbind_list(timestamp.rem), LAMBDA var :
      Ok(var.rem,
         [t |-> "TrapV1", enterprise |-> enterprise.val.bytes,
          agent_addr |-> agent_addr.val, generic_trap |-> as_u8(generic_trap.val),
          specific_trap |-> specific_trap.val, timestamp |-> timestamp.val,
          var |-> var.val])))))))

(* SnmpPdu::pdu_type *)
pdu_type(pdu) ==
    CASE pdu.t = "Generic" -> pdu.pdu_type
      [] pdu.t = "Bulk" -> 5
      [] pdu.t = "TrapV1" -> 4

(* SnmpPdu::vars_iter: the variables of the PDU, in the order of var. *)
vars_iter(pdu) == pdu.var

parse_snmp_v1_pdu(i) ==
    Then(ber_read_element_header(i), LAMBDA h :
      CASE h.val.tag \in {0, 1, 2, 3} -> parse_snmp_v1_generic_pdu(h.rem, h.val.tag)
        [] h.val.tag = 4 -> parse_snmp_v1_trap_pdu(h.rem)
        [] OTHER -> BerFail("BerValueError"))

parse_snmp_v2c_pdu(i) ==
    Then(ber_read_element_header(i), LAMBDA h :
      CASE h.val.tag \in {0, 1, 2, 3, 6, 7, 8} -> parse_snmp_v1_generic_pdu(h.rem, h.val.tag)
        [] h.val.tag = 5 -> parse_snmp_v1_bulk_pdu(h.rem)
        [] h.val.tag = 4 -> parse_snmp_v1_trap_pdu(h.rem)
        [] OTHER -> BerFail("BerValueError"))

-----------------------------------------------------------------------------
(* SNMP v1 / v2c messages                                                  *)

IsCont(b) == b >= 128 /\ b <= 191

RECURSIVE from_utf8(_)
(* str::from_utf8: TRUE iff the bytes are well-formed UTF-8. *)
from_utf8(s) ==
    IF Len(s) = 0 THEN TRUE
    ELSE LET b == s[1] IN
         CASE b < 128 -> from_utf8(Drop(s, 1))
           [] b >= 194 /\ b <= 223 ->
                Len(s) >= 2 /\ IsCont(s[2]) /\ from_utf8(Drop(s, 2))
           [] b >= 224 /\ b <= 239 ->
                /\ Len(s) >= 3 /\ IsCont(s[2]) /\ IsCont(s[3])
                /\ (b = 224 => s[2] >= 160)
                /\ (b = 237 => s[2] <= 159)
                /\ from_utf8(Drop(s, 3))
           [] b >= 240 /\ b <= 244 ->
                /\ Len(s) >= 4 /\ IsCont(s[2]) /\ IsCont(s[3]) /\ IsCont(s[4])
                /\ (b = 240 => s[2] >= 144)
                /\ (b = 244 => s[2] <= 143)
                /\ from_utf8(Drop(s, 4))
           [] OTHER -> FALSE

parse_ber_octetstring_as_slice(i) ==
    Then(parse_ber_octetstring(i), LAMBDA o :
      IF o.val.kind = "OctetString" THEN Ok(o.rem, o.val.bytes) ELSE BerFail("InvalidTag"))

(* map_res!(parse_ber_octetstring_as_slice, str::from_utf8) *)
parse_community(i) ==
    Then(parse_ber_octetstring_as_slice(i), LAMBDA o :
      IF from_utf8(o.val) THEN o ELSE BerFail("MapRes"))

(* The body shared by parse_snmp_v1 and parse_snmp_v2c: the outer          *)
(* SEQUENCE, the version checked against want (custom_check!), the         *)
(* community and the PDU read by the entry point's dispatcher.             *)
parse_snmp_message(i, want, v1) ==
    Then(parse_der_struct(i, TagSequence), LAMBDA s :
    Then(parse_ber_u32(s.val), LAMBDA version :
      IF version.val # U(want) THEN BerFail("BerValueError")
      ELSE Then(parse_community(version.rem), LAMBDA community :
           Then(IF v1 THEN parse_snmp_v1_pdu(community.rem)
                ELSE parse_snmp_v2c_pdu(community.rem), LAMBDA pdu :
             Ok(s.rem, [t |-> "SnmpMessage", version |-> version.val,
                        community |-> community.val, pdu |-> pdu.val])))))

parse_snmp_v1(i) == parse_snmp_message(i, 0, TRUE)

parse_snmp_v2c(i) == parse_snmp_message(i, 1, FALSE)

-----------------------------------------------------------------------------
(* SNMP v3 (snmpv3.rs)                                                     *)

(* DerObject::as_slice: the content of the string-like kinds. *)
as_slice(obj) ==
    CASE obj.kind \in {"Integer", "OctetString", "String", "Unknown"} -> Ok(<<>>, obj.bytes)
      [] obj.kind = "BitString" -> Ok(<<>>, Drop(obj.bytes, 1))
      [] OTHER -> BerFail("DerTypeError")

(* DerObject::as_u32 *)
obj_as_u32(obj) ==
    IF obj.kind = "Integer" THEN as_u32(obj.bytes) ELSE BerFail("DerTypeError")

(* r.or(Err(err)): a failure of r replaced by the error err. *)
or_err(r, err) == IF r.ok THEN r ELSE Fail(err, "")

(* parse_der_sequence_defined!: a universal, constructed element of tag    *)
(* SEQUENCE; val is its content, which the caller's parsers must consume   *)
(* to the last byte.                                                       *)
parse_der_sequence_defined(i) ==
    Then(ber_read_element_header(i), LAMBDA h :
      IF h.val.class # ClassUniversal THEN Fail("NomError", "DER_CLASS_ERROR")
      ELSE IF h.val.structured # 1 THEN Fail("NomError", "DER_STRUCT_ERROR")
      ELSE IF h.val.tag # TagSequence THEN Fail("NomError", "DER_TAG_ERROR")
      ELSE take(h.rem, h.val.len))

(* SEQUENCE { INTEGER, INTEGER, OCTET STRING, INTEGER } as a list of four  *)
(* objects.                                                                *)
parse_snmp_v3_headerdata(i) ==
    Then(parse_der_sequence_defined(i), LAMBDA s :
    Then(parse_ber_integer(s.val), LAMBDA a :
    Then(parse_ber_integer(a.rem), LAMBDA b :
    Then(parse_ber_octetstring(b.rem), LAMBDA c :
    Then(parse_ber_integer(c.rem), LAMBDA d :
      IF Len(d.rem) # 0 THEN Fail("NomError", "DER_OBJ_TOOSHORT")
      ELSE Ok(s.rem, [kind |-> "Sequence", v |-> <<a.val, b.val, c.val, d.val>>]))))))

(* HeaderData::from_der.  The four fields are extracted first; the flags   *)
(* octet is then read with msg_flags[0], which panics on an empty slice.   *)
HeaderData_from_der(obj) ==
    IF obj.kind # "Sequence" THEN Fail("InvalidMessage", "")
    ELSE IF Len(obj.v) # 4 THEN Fail("InvalidHeaderData", "")
    ELSE Then(or_err(obj_as_u32(obj.v[1]), "InvalidHeaderData"), LAMBDA msg_id :
         Then(or_err(obj_as_u32(obj.v[2]), "InvalidHeaderData"), LAMBDA msg_max_size :
         Then(or_err(as_slice(obj.v[3]), "InvalidHeaderData"), LAMBDA msg_flags :
         Then(or_err(obj_as_u32(obj.v[4]), "InvalidHeaderData"), LAMBDA msg_security_model :
           IF Len(msg_flags.val) = 0 THEN Panic("index out of bounds: msg_flags[0]")
           ELSE Ok(<<>>, [msg_id |-> msg_id.val, msg_max_size |-> msg_max_size.val,
                          msg_flags |-> msg_flags.val[1],
                          msg_security_model |-> msg_security_model.val])))))

is_authenticated(h) == h.msg_flags % 2 # 0

(* A variant of is_encrypted that tests the authentication bit. *)
is_encrypted_auth_bit(h) == h.msg_flags % 2 # 0

is_encrypted(h) == (h.msg_flags \div 2) % 2 # 0

is_reportable(h) == (h.msg_flags \div 4) % 2 # 0

(* ScopedPduData::from_der: the three elements of the scoped PDU as        *)
(* slices; data is the content of the third element, left undecoded.       *)
ScopedPduData_from_der(obj) ==
    IF obj.kind # "Sequence" THEN Fail("InvalidMessage", "")
    ELSE Bind(ber_read_children(obj.bytes), LAMBDA k :
      IF Len(k.val) # 3 THEN Fail("InvalidScopedPduData", "")
      ELSE Then(or_err(as_slice(k.val[1]), "InvalidScopedPduData"), LAMBDA ctx_engine_id :
           Then(or_err(as_slice(k.val[2]), "InvalidScopedPduData"), LAMBDA ctx_engine_name :
           Then(or_err(as_slice(k.val[3]), "InvalidScopedPduData"), LAMBDA data :
             Ok(<<>>, [t |-> "Plaintext", ctx_engine_id |-> ctx_engine_id.val,
                       ctx_engine_name |-> ctx_engine_name.val,
                       data |-> [t |-> "Bytes", bytes |-> data.val]])))))

(* SEQUENCE { OCTET STRING, OCTET STRING, ANY } as an object. *)
parse_snmp_v3_scoped_pdu(i) ==
    Then(parse_der_sequence_defined(i), LAMBDA s :
    Then(parse_ber_octetstring(s.val), LAMBDA a :
    Then(parse_ber_octetstring(a.rem), LAMBDA b :
    Then(parse_ber(b.rem), LAMBDA c :
      IF Len(c.rem) # 0 THEN Fail("NomError", "DER_OBJ_TOOSHORT")
      ELSE Ok(s.rem, [kind |-> "Sequence", bytes |-> s.val])))))

(* map_res!(parse_snmp_v3_scoped_pdu, ScopedPduData::from_der) *)
parse_snmp_v3_plaintext_pdu(i) ==
    Then(parse_snmp_v3_scoped_pdu(i), LAMBDA o :
    Bind(ScopedPduData_from_der(o.val), LAMBDA d :
      IF ~d.ok THEN Fail("NomError", "MapRes") ELSE Ok(o.rem, d.val)))

(* SnmpV3Message::from_der on the four objects of the outer sequence.      *)
(* The version is read and never compared; the remainder returned is       *)
(* always the empty slice.                                                 *)
SnmpV3Message_from_der(v) ==
    IF Len(v) # 4 THEN Fail("InvalidMessage", "")
    ELSE Then(or_err(obj_as_u32(v[1]), "InvalidMessage"), LAMBDA vers :
         Then(HeaderData_from_der(v[2]), LAMBDA header_data :
         Then(or_err(as_slice(v[3]), "InvalidMessage"), LAMBDA security_params :
         Then(IF is_encrypted(header_data.val)
              THEN Then(or_err(as_slice(v[4]), "InvalidMessage"), LAMBDA data :
                     Ok(<<>>, [t |-> "Encrypted", bytes |-> data.val]))
              ELSE ScopedPduData_from_der(v[4]), LAMBDA pdu :
           Ok(<<>>, [t |-> "SnmpV3Message", version |-> vers.val,
                     header_data |-> header_data.val,
                     security_params |-> security_params.val, data |-> pdu.val])))))

(* fix_error!: a structural failure of the outer parser surfaces as a nom *)
(* error of the target error type.                                         *)
fix_error(r) ==
    IF r.ok \/ r.err = "Incomplete" THEN r ELSE Fail("NomError", r.detail)

(* The outer sequence { INTEGER, HeaderData, OCTET STRING, ANY } as a list *)
(* of four objects; rem is what follows the sequence.                      *)
parse_snmp_v3_sequence(i) ==
    Then(parse_der_sequence_defined(i), LAMBDA s :
    Then(parse_ber_integer(s.val), LAMBDA a :
    Then(parse_snmp_v3_headerdata(a.rem), LAMBDA b :
    Then(parse_ber_octetstring(b.rem), LAMBDA c :
    Then(parse_ber(c.rem), LAMBDA d :
      IF Len(d.rem) # 0 THEN Fail("NomError", "DER_OBJ_TOOSHORT")
      ELSE Ok(s.rem, <<a.val, b.val, c.val, d.val>>))))))

parse_snmp_v3_content(obj) == SnmpV3Message_from_der(obj)

(* A variant of parse_snmp_v3 that returns the remainder of                *)
(* parse_snmp_v3_content, not the one of the outer sequence.               *)
parse_snmp_v3_inner_rem(i) ==
    Then(fix_error(parse_snmp_v3_sequence(i)), LAMBDA o : parse_snmp_v3_content(o.val))

(* parse_snmp_v3: flat_map!(outer sequence, parse_snmp_v3_content).        *)
(* flat_map! keeps the remainder of the first parser and drops the one of  *)
(* the second.                                                             *)
parse_snmp_v3(i) ==
    Then(fix_error(parse_snmp_v3_sequence(i)), LAMBDA o :
    Then(parse_snmp_v3_content(o.val), LAMBDA m :
      Ok(o.rem, m.val)))

-----------------------------------------------------------------------------
(* USM security parameters (usm.rs)                                        *)

parse_usm_security_parameters(i) ==
    Then(parse_der_struct(i, TagSequence), LAMBDA s :
    Then(parse_ber_octetstring_as_slice(s.val), LAMBDA eng_id :
    Then(parse_ber_u32(eng_id.rem), LAMBDA eng_b :
    Then(parse_ber_u32(eng_b.rem), LAMBDA eng_t :
    Then(parse_community(eng_t.rem), LAMBDA user :
    Then(parse_ber_octetstring_as_slice(user.rem), LAMBDA auth_p :
    Then(parse_ber_octetstring_as_slice(auth_p.rem), LAMBDA priv_p :
      Ok(s.rem, [msg_authoritative_engine_id |-> eng_id.val,
                 msg_authoritative_engine_boots |-> eng_b.val,
                 msg_authoritative_engine_time |-> eng_t.val,
                 msg_user_name |-> user.val,
                 msg_authentication_parameters |-> auth_p.val,
                 msg_privacy_parameters |-> priv_p.val]))))))))

-----------------------------------------------------------------------------
(* The generic dispatcher (generic.rs)                                     *)

(* Any::from_ber: a header and its content. *)
Any_from_ber(i) ==
    Then(ber_read_element_header(i), LAMBDA h :
    Then(take(h.rem, h.val.len), LAMBDA c :
      Ok(c.rem, [header |-> h.val, data |-> c.val])))

(* u32::from_ber: a primitive INTEGER that is not negative and fits. *)
u32_from_ber(i) ==
    Then(Any_from_ber(i), LAMBDA a :
      IF a.val.header.tag # TagInteger THEN BerFail("UnexpectedTag")
      ELSE IF a.val.header.structured = 1 THEN BerFail("ConstructUnexpected")
      ELSE IF Len(a.val.data) > 0 /\ a.val.data[1] >= 128 THEN BerFail("IntegerNegative")
      ELSE IF Len(trim(a.val.data)) > U32Bytes THEN BerFail("IntegerTooLarge")
      ELSE Ok(a.rem, trim(a.val.data)))

parse_snmp_v1_pdu_content(i) ==
    Then(parse_community(i), LAMBDA community :
    Then(parse_snmp_v1_pdu(community.rem), LAMBDA pdu :
      Ok(pdu.rem, [t |-> "SnmpMessage", version |-> U(0),
                   community |-> community.val, pdu |-> pdu.val])))

parse_snmp_v2c_pdu_content(i) ==
    Then(parse_community(i), LAMBDA community :
    Then(parse_snmp_v2c_pdu(community.rem), LAMBDA pdu :
      Ok(pdu.rem, [t |-> "SnmpMessage", version |-> U(1),
                   community |-> community.val, pdu |-> pdu.val])))

(* parse_secp: USM parameters when the security model is 3, the raw bytes  *)
(* otherwise.                                                              *)
parse_secp(x, hdr) ==
    IF hdr.msg_security_model = U(3)
    THEN Bind(parse_usm_security_parameters(x), LAMBDA u :
           IF ~u.ok THEN Fail("InvalidSecurityModel", "")
           ELSE Ok(<<>>, [t |-> "USM", usm |-> u.val]))
    ELSE Ok(<<>>, [t |-> "Raw", bytes |-> x])

(* parse_snmp_v3_data: the encrypted blob when the privacy flag is set,    *)
(* else the scoped PDU read by parse_snmp_v3_plaintext_pdu.                *)
parse_snmp_v3_data(i, hdr) ==
    IF is_encrypted(hdr)
    THEN Then(parse_ber_octetstring_as_slice(i), LAMBDA o :
           Ok(o.rem, [t |-> "Encrypted", bytes |-> o.val]))
    ELSE parse_snmp_v3_plaintext_pdu(i)

parse_snmp_v3_pdu_content(i) ==
    Then(parse_snmp_v3_headerdata(i), LAMBDA o :
    Then(HeaderData_from_der(o.val), LAMBDA hdr :
    Then(parse_ber_octetstring_as_slice(o.rem), LAMBDA x :
    Bind(parse_secp(x.val, hdr.val), LAMBDA secp :
      IF ~secp.ok THEN BerFail("MapRes")
      ELSE Then(parse_snmp_v3_data(x.rem, hdr.val), LAMBDA data :
             Ok(data.rem, [t |-> "SnmpV3Message", version |-> U(3),
                           header_data |-> hdr.val, security_params |-> secp.val,
                           data |-> data.val]))))))

(* A decoded message wrapped in its SnmpGenericMessage variant. *)
tagged(r, variant) ==
    IF ~r.ok THEN r ELSE Ok(r.rem, [t |-> variant, msg |-> r.val])

(* A variant of the dispatcher that routes every version up to 2 but 0 to  *)
(* the v2c decoder.                                                        *)
parse_snmp_generic_message_le2(bytes) ==
    Then(or_err(Any_from_ber(bytes), "InvalidMessage"), LAMBDA any :
      IF any.val.header.tag # TagSequence THEN Fail("InvalidMessage", "")
      ELSE Then(u32_from_ber(any.val.data), LAMBDA version :
           Then(CASE version.val = U(0) ->
                       tagged(parse_snmp_v1_pdu_content(version.rem), "V1")
                  [] version.val \in {U(1), U(2)} ->
                       tagged(parse_snmp_v2c_pdu_content(version.rem), "V2")
                  [] version.val = U(3) ->
                       tagged(parse_snmp_v3_pdu_content(version.rem), "V3")
                  [] OTHER -> Fail("InvalidVersion", ""), LAMBDA m :
             Ok(any.rem, m.val))))

(* SnmpGenericMessage::from_ber.  The remainder returned is the one after  *)
(* the outer element; what the version's decoder leaves is dropped.        *)
parse_snmp_generic_message(bytes) ==
    Then(or_err(Any_from_ber(bytes), "InvalidMessage"), LAMBDA any :
      IF any.val.header.tag # TagSequence THEN Fail("InvalidMessage", "")
      ELSE Then(u32_from_ber(any.val.data), LAMBDA version :
           Then(CASE version.val = U(0) ->
                       tagged(parse_snmp_v1_pdu_content(version.rem), "V1")
                  [] version.val = U(1) ->
                       tagged(parse_snmp_v2c_pdu_content(version.rem), "V2")
                  [] version.val = U(3) ->
                       tagged(parse_snmp_v3_pdu_content(version.rem), "V3")
                  [] OTHER -> Fail("InvalidVersion", ""), LAMBDA m :
             Ok(any.rem, m.val))))

-----------------------------------------------------------------------------
(* Datagrams: the encoder of the buffers handed to the decoder             *)

MaxVersion == 4

MaxPduTag == 9

MaxTrail == 1

MaxFlagsLen == 2

MaxVarBinds == 2

EncLen(n) == IF n < 128 THEN <<n>> ELSE <<129, n>>

TLV(id, c) == <<id>> \o EncLen(Len(c)) \o c

EncInt(n) == TLV(2, <<n>>)

EncOct(c) == TLV(4, c)

SampleOid == <<43, 6, 1, 2, 1>>

VarBindValues == << <<5, 0>>, <<2, 1, 7>>, <<67, 1, 9>> >>

EncVarBind(k) == TLV(48, TLV(6, SampleOid \o <<k>>) \o VarBindValues[((k - 1) % 3) + 1])

RECURSIVE EncVarBinds(_)
EncVarBinds(n) == IF n = 0 THEN <<>> ELSE EncVarBinds(n - 1) \o EncVarBind(n)

(* The body of a PDU of the given tag: the trap shape for tag 4, three     *)
(* integers and a VarBindList otherwise.                                   *)
EncPduBody(tag, n) ==
    IF tag = 4
    THEN TLV(6, SampleOid) \o TLV(64, <<127, 0, 0, 1>>) \o EncInt(6) \o EncInt(1)
         \o TLV(67, <<5>>) \o TLV(48, EncVarBinds(n))
    ELSE EncInt(38) \o EncInt(0) \o EncInt(0) \o TLV(48, EncVarBinds(n))

(* A PDU framed by a context-specific constructed header of the tag. *)
EncPdu(tag, n) == TLV(160 + tag, EncPduBody(tag, n))

RECURSIVE EncVarBindsOf(_, _)
(* The first n VarBinds of a shape.  The value of the last VarBind of the  *)
(* list is the element sh.val describes (its identifier octet followed by  *)
(* its content) when sh.val is not empty.                                  *)
EncVarBindsOf(sh, n) ==
    IF n = 0 THEN <<>>
    ELSE EncVarBindsOf(sh, n - 1)
         \o (IF n = sh.nvb /\ sh.val # <<>>
             THEN TLV(48, TLV(6, SampleOid \o <<n>>) \o TLV(sh.val[1], Drop(sh.val, 1)))
             ELSE EncVarBind(n))

(* The VarBindList of a shape: its VarBinds, then the bytes sh.listtail    *)
(* inside the body of the list.                                            *)
EncVarBindListOf(sh) == TLV(48, EncVarBindsOf(sh, sh.nvb) \o sh.listtail)

(* The PDU of a community message: the body of EncPduBody with the         *)
(* request-id, agent-addr and generic-trap contents of the shape, framed   *)
(* by a constructed header of class sh.pducls.                             *)
EncPduBodyOf(sh) ==
    IF sh.pdu = 4
    THEN TLV(6, SampleOid) \o TLV(64, sh.addr) \o TLV(2, sh.gtrap) \o EncInt(1)
         \o TLV(67, <<5>>) \o EncVarBindListOf(sh)
    ELSE TLV(2, sh.reqid) \o EncInt(0) \o EncInt(0) \o EncVarBindListOf(sh)

(* The length the header declares is the length of the body plus           *)
(* sh.pduskew.                                                             *)
EncPduOf(sh) ==
    <<sh.pducls * 64 + 32 + sh.pdu>> \o EncLen(Len(EncPduBodyOf(sh)) + sh.pduskew)
    \o EncPduBodyOf(sh)

Community == <<112, 117, 98>>

UsmBlob == TLV(48, EncOct(<<>>) \o EncInt(0) \o EncInt(0) \o EncOct(<<117>>)
                   \o EncOct(<<>>) \o EncOct(<<>>))

EngineId == <<128, 0, 31>>

(* The fourth element of a v3 message, by kind. *)
EncFourth(kind, n) ==
    CASE kind = "scoped" -> TLV(48, EncOct(EngineId) \o EncOct(<<>>) \o EncPdu(0, n))
      [] kind = "scopedTrap" -> TLV(48, EncOct(EngineId) \o EncOct(<<>>) \o EncPdu(4, n))
      [] kind = "blob" -> EncOct(<<222, 173, 190, 239>>)
      [] kind = "blobOfPdu" -> EncOct(TLV(48, EncOct(EngineId) \o EncOct(<<>>) \o EncPdu(0, n)))
      [] kind = "emptyBlob" -> EncOct(<<>>)
      [] kind = "twoElements" -> TLV(48, EncOct(EngineId) \o EncOct(<<>>))
      [] kind = "nullId" -> TLV(48, <<5, 0>> \o EncOct(<<>>) \o EncPdu(0, n))
      [] kind = "set" -> TLV(49, EncOct(EngineId) \o EncOct(<<>>) \o EncPdu(0, n))
      [] kind = "integer" -> EncInt(5)

FourthKinds == {"scoped", "scopedTrap", "blob", "blobOfPdu", "emptyBlob", "twoElements",
                "nullId", "set", "integer"}

(* The message a shape describes, before truncation. *)
EncMessage(sh) ==
    IF sh.env = "community"
    THEN TLV(sh.outer, EncInt(sh.version) \o EncOct(Community) \o EncPduOf(sh))
    ELSE TLV(sh.outer,
             EncInt(sh.version)
             \o TLV(48, EncInt(77) \o TLV(2, sh.maxsize) \o EncOct(sh.flags)
                        \o EncInt(sh.model))
             \o EncOct(IF sh.secp = "usm" THEN UsmBlob ELSE <<1, 2>>)
             \o EncFourth(sh.fourth, sh.nvb))

(* The buffer: the message followed by the trailing bytes, cut bytes       *)
(* short of its end.                                                       *)
Encode(sh) ==
    Bind(EncMessage(sh) \o sh.trail, LAMBDA b : Take(b, Len(b) - sh.cut))

-----------------------------------------------------------------------------
(* The datagrams decoded                                                   *)

TrailBytes == {0, 48, 255}

Trails == UNION {[1..n -> TrailBytes] : n \in 0..MaxTrail}

(* Outer identifier octets: universal SEQUENCE, tag 16 in the application, *)
(* context-specific and private classes, universal SET, and a primitive    *)
(* element of tag 16.                                                      *)
OuterIds == {48, 112, 176, 240, 49, 16}

FlagBytes == {0, 1, 2, 4, 7, 130}

(* msgFlags contents: empty, or a first octet followed by up to            *)
(* MaxFlagsLen - 1 octets whose bits are the complement of the first.      *)
FlagsContents ==
    {<<>>} \cup {<<b>> \o [k \in 1..n |-> 255 - b] : b \in FlagBytes, n \in 0..(MaxFlagsLen - 1)}

BaseShape ==
    [env |-> "community", outer |-> 48, version |-> 0, pdu |-> 0, nvb |-> 1,
     flags |-> <<4>>, model |-> 3, secp |-> "usm", fourth |-> "scoped",
     trail |-> <<>>, cut |-> 0,
     pducls |-> 2, val |-> <<>>, listtail |-> <<>>, reqid |-> <<38>>,
     addr |-> <<127, 0, 0, 1>>, gtrap |-> <<6>>, maxsize |-> <<0, 255, 227>>,
     pduskew |-> 0]

CommunityShapes ==
    {[BaseShape EXCEPT !.outer = o, !.version = v, !.pdu = p, !.nvb = n, !.trail = t] :
        o \in OuterIds, v \in 0..MaxVersion, p \in 0..MaxPduTag, n \in 0..MaxVarBinds,
        t \in Trails}

V3Shapes ==
    {[BaseShape EXCEPT !.env = "v3", !.version = v, !.flags = f, !.fourth = k, !.trail = t] :
        v \in 0..MaxVersion, f \in FlagsContents, k \in FourthKinds, t \in Trails}

V3EnvelopeShapes ==
    {[BaseShape EXCEPT !.env = "v3", !.version = 3, !.outer = o, !.model = m, !.secp = s,
                       !.flags = f] :
        o \in OuterIds, m \in {1, 3}, s \in {"usm", "junk"}, f \in {<<2>>, <<4>>}}

(* Every proper prefix of a well-formed message of each envelope, the      *)
(* empty buffer included.                                                  *)
CutShapes ==
    UNION {{[sh EXCEPT !.cut = c] : c \in 1..Len(EncMessage(sh))} :
              sh \in {[BaseShape EXCEPT !.version = v] : v \in {0, 1}}
                     \cup {[BaseShape EXCEPT !.env = "v3", !.version = 3, !.flags = f] :
                              f \in {<<2>>, <<4>>}}}

(* INTEGER contents: small values, the largest u32 with and without a     *)
(* leading zero, 2^32, the largest u64 and 2^64.                           *)
IntContents ==
    {<<7>>, <<1, 0>>, <<255, 255, 255, 255>>, <<0, 255, 255, 255, 255>>, <<1, 0, 0, 0, 0>>,
     <<255, 255, 255, 255, 255, 255, 255, 255>>, <<1, 0, 0, 0, 0, 0, 0, 0, 0>>}

MaxAddrLen == 5

(* Address contents of every length up to MaxAddrLen. *)
AddrContents == {[k \in 1..n |-> 10 + k] : n \in 0..MaxAddrLen}

(* Value elements of a VarBind, as identifier octet and content: the       *)
(* application types 0..9, universal types, and empty and non-empty        *)
(* elements of the context-specific and private classes.                   *)
ValueElements ==
    {<<64>> \o c : c \in AddrContents}
    \cup {<<64 + t>> \o c : t \in {1, 2, 3, 6, 7}, c \in IntContents}
    \cup {<<64 + t>> \o c : t \in {4, 5, 8, 9}, c \in {<<>>, <<1, 2, 3>>}}
    \cup {<<2, 7>>, <<2, 1, 0>>, <<4>>, <<4, 97, 98>>, <<6, 43, 6>>, <<3, 0, 5>>, <<5>>,
          <<1, 255>>, <<9>>, <<48, 5, 0>>}
    \cup {<<128>>, <<129>>, <<130>>, <<131>>, <<128, 1>>, <<192>>, <<197>>}

ValueShapes ==
    {[BaseShape EXCEPT !.version = v, !.pdu = 2, !.nvb = n, !.val = e] :
        v \in {0, 1}, n \in 1..MaxVarBinds, e \in ValueElements}

(* Bytes left in the body of the list after its VarBinds: a stray octet, a *)
(* VarBind cut short, a VarBind without a value, an element that is not a  *)
(* SEQUENCE.                                                               *)
ListTails == {<<0>>, <<48, 5, 6, 1, 43>>, <<48, 3, 6, 1, 43>>, <<5, 0>>}

ListTailShapes ==
    {[BaseShape EXCEPT !.version = v, !.pdu = p, !.nvb = n, !.listtail = t] :
        v \in {0, 1}, p \in {2, 4}, n \in 0..MaxVarBinds, t \in ListTails}

ReqIdShapes ==
    {[BaseShape EXCEPT !.version = v, !.pdu = p, !.reqid = c] :
        v \in {0, 1}, p \in {0, 5}, c \in IntContents}

(* generic-trap contents: 0, 6, 255, 256, 262 and 65536. *)
TrapContents == {<<0>>, <<6>>, <<0, 255>>, <<1, 0>>, <<1, 6>>, <<1, 0, 0>>}

TrapShapes ==
    {[BaseShape EXCEPT !.version = v, !.pdu = 4, !.addr = a, !.gtrap = g] :
        v \in {0, 1}, a \in AddrContents, g \in TrapContents}

(* PDUs framed by a header of each of the four classes. *)
PduClassShapes ==
    {[BaseShape EXCEPT !.version = v, !.pdu = p, !.pducls = c] :
        v \in {0, 1}, p \in 0..MaxPduTag, c \in 0..3}

V3SizeShapes ==
    {[BaseShape EXCEPT !.env = "v3", !.version = 3, !.maxsize = c, !.flags = f] :
        c \in IntContents, f \in {<<2>>, <<4>>}}

MaxSkew == 2

(* PDUs whose header declares up to MaxSkew bytes fewer or more than the   *)
(* body has.                                                               *)
PduLenShapes ==
    {[BaseShape EXCEPT !.version = v, !.pdu = p, !.nvb = n, !.pduskew = d] :
        v \in {0, 1}, p \in {0, 4, 5}, n \in 0..MaxVarBinds,
        d \in (-MaxSkew..MaxSkew) \ {0}}

Shapes ==
    CommunityShapes \cup V3Shapes \cup V3EnvelopeShapes \cup CutShapes
    \cup ValueShapes \cup ListTailShapes \cup ReqIdShapes \cup TrapShapes
    \cup PduClassShapes \cup V3SizeShapes \cup PduLenShapes

Init ==
    /\ shape \in Shapes
    /\ input = Encode(shape)
    /\ entry = "none"
    /\ result = Fail("", "")
    /\ unread = <<>>
    /\ res = <<>>
    /\ pc = "idle"

(* One call of an entry point on the buffer. *)
Call(e, r) ==
    /\ entry = "none"
    /\ entry' = e
    /\ result' = r
    /\ UNCHANGED <<shape, input, unread, res, pc>>

CallParseSnmpV1 == Call("parse_snmp_v1", parse_snmp_v1(input))

CallParseSnmpV2c == Call("parse_snmp_v2c", parse_snmp_v2c(input))

CallParseSnmpV3 == Call("parse_snmp_v3", parse_snmp_v3(input))

CallParseSnmpGenericMessage ==
    Call("parse_snmp_generic_message", parse_snmp_generic_message(input))

Next ==
    \/ CallParseSnmpV1
    \/ CallParseSnmpV2c
    \/ CallParseSnmpV3
    \/ CallParseSnmpGenericMessage

Spec == Init /\ [][Next]_vars

-----------------------------------------------------------------------------
(* The loop of parse_varbind_list, one iteration a step                    *)

(* The lists read: those of the messages whose last value or whose bytes   *)
(* after the last VarBind are chosen, and well-formed ones of each length. *)
LoopShapes ==
    ValueShapes \cup ListTailShapes
    \cup {[BaseShape EXCEPT !.pdu = 2, !.nvb = n] : n \in 0..MaxVarBinds}

(* The body of the list, as parse_der_struct! hands it to the loop. *)
InitLoop ==
    /\ shape \in LoopShapes
    /\ input = EncVarBindsOf(shape, shape.nvb) \o shape.listtail
    /\ entry = "parse_varbind_list"
    /\ result = Fail("", "")
    /\ unread = input
    /\ res = <<>>
    /\ pc = "many0"

(* An iteration that decodes a VarBind: it is pushed and the loop goes on  *)
(* with the bytes after it.                                                *)
Many0Push ==
    /\ pc = "many0"
    /\ ~many0_step(unread).done
    /\ unread' = many0_step(unread).rem
    /\ res' = Append(res, many0_step(unread).val)
    /\ UNCHANGED <<shape, input, entry, result, pc>>

(* The iteration that ends the loop. *)
Many0Stop ==
    /\ pc = "many0"
    /\ many0_step(unread).done
    /\ pc' = "done"
    /\ result' = (IF many0_step(unread).ok THEN Ok(unread, res) ELSE BerFail("Many0"))
    /\ UNCHANGED <<shape, input, entry, unread, res>>

NextLoop == Many0Push \/ Many0Stop

(* The loop is sequential code: while it can take a step it takes one, and *)
(* every step changes the loop's own state <<pc, unread, res>>.            *)
SpecLoop == InitLoop /\ [][NextLoop]_vars /\ WF_<<pc, unread, res>>(NextLoop)

(* The loop returns what many0_varbind computes in one go. *)
LoopIsMany0 == pc = "done" => result = many0_varbind(input)

-----------------------------------------------------------------------------
(* Properties                                                              *)

Generic == "parse_snmp_generic_message"

(* The datagram is a whole message in a universal constructed SEQUENCE. *)
Framed == shape.outer = 48 /\ shape.cut = 0

(* A v3 message was returned, by parse_snmp_v3 or by the dispatcher. *)
ReturnedV3 ==
    /\ result.ok
    /\ \/ entry = "parse_snmp_v3"
       \/ entry = Generic /\ result.val.t = "V3"

V3Msg == IF entry = Generic THEN result.val.msg ELSE result.val

PrivacyBit(b) == (b \div 2) % 2 = 1

(* The content octets of the fourth element of a v3 datagram. *)
FourthContent == Drop(EncFourth(shape.fourth, shape.nvb), 2)

(* C1: no call of an entry point ends in a panic: every buffer, the empty  *)
(* one, truncated ones and a v3 header with an empty msgFlags included,    *)
(* yields Ok or a typed error.                                             *)
C1_Totality == result.err # "Panic"

(* C2: each version-specific entry point returns Ok only for its own       *)
(* version (0 for parse_snmp_v1, 1 for parse_snmp_v2c, 3 for               *)
(* parse_snmp_v3), and rejects a framed message of any other version with  *)
(* InvalidVersion.                                                         *)
C2_VersionGating ==
    LET want == CASE entry = "parse_snmp_v1" -> 0
                  [] entry = "parse_snmp_v2c" -> 1
                  [] OTHER -> 3
    IN entry \in {"parse_snmp_v1", "parse_snmp_v2c", "parse_snmp_v3"} =>
         /\ result.ok => result.val.version = U(want)
         /\ (Framed /\ shape.version # want) => (~result.ok /\ result.err = "InvalidVersion")

(* C3: the dispatcher returns V1 for an encoded version 0, V2 for 1 and V3 *)
(* for 3, the message carrying that version; a message whose outer element *)
(* has tag 16 and whose version is any other value fails with              *)
(* InvalidVersion.                                                         *)
C3_GenericDispatch ==
    entry = Generic =>
      /\ result.ok =>
           /\ result.val.t = (CASE shape.version = 0 -> "V1"
                                [] shape.version = 1 -> "V2"
                                [] shape.version = 3 -> "V3"
                                [] OTHER -> "None")
           /\ result.val.msg.version = U(shape.version)
      /\ (shape.outer % 32 = 16 /\ shape.cut = 0 /\ shape.version \notin {0, 1, 3}) =>
           (~result.ok /\ result.err = "InvalidVersion")

(* C3 witness: the dispatcher returned V3 for a message of version 3. *)
C3_Witness ==
    entry = Generic /\ result.ok /\ result.val.t = "V3" /\ shape.version = 3

(* C4: the dispatcher fails with InvalidMessage whenever the outer element *)
(* is not a universal-class SEQUENCE (tag 16 of another class, another     *)
(* tag) or its header cannot be decoded.                                   *)
C4_OuterMustBeSequence ==
    (entry = Generic /\ (shape.outer \in {112, 176, 240, 49} \/ Len(input) < 2)) =>
      (~result.ok /\ result.err = "InvalidMessage")

(* C5: a successful parse, by any entry point, returns as remainder        *)
(* exactly the bytes that follow the message in the buffer.                *)
C5_Remainder ==
    (entry # "none" /\ result.ok) => (shape.cut = 0 /\ result.rem = shape.trail)

(* C5 witness: parse_snmp_v3 succeeded on a message followed by trailing   *)
(* bytes.                                                                  *)
C5_Witness ==
    entry = "parse_snmp_v3" /\ result.ok /\ Len(shape.trail) > 0

(* C6: through the v1 entry, a PDU of tag 5, 6, 7 or 8 fails, and the      *)
(* error is InvalidPduType.                                                *)
C6_V1TagGating ==
    (/\ entry = "parse_snmp_v1"
     /\ shape.env = "community" /\ Framed /\ shape.version = 0
     /\ shape.pdu \in 5..8) =>
      (~result.ok /\ result.err = "InvalidPduType")

(* C7: through the v2c dispatcher, tags 0,1,2,3,6,7,8 give a Generic PDU   *)
(* of that type, tag 5 a Bulk PDU, tag 4 a TrapV1 PDU, any other tag       *)
(* fails with InvalidPduType, and pdu_type() of a decoded PDU is the tag   *)
(* of its header.                                                          *)
C7_PduShapeMatrix ==
    (/\ entry = "parse_snmp_v2c"
     /\ shape.env = "community" /\ Framed /\ shape.version = 1) =>
      /\ shape.pdu \in 0..8 =>
           /\ result.ok
           /\ result.val.pdu.t = (CASE shape.pdu = 5 -> "Bulk"
                                    [] shape.pdu = 4 -> "TrapV1"
                                    [] OTHER -> "Generic")
           /\ pdu_type(result.val.pdu) = shape.pdu
      /\ shape.pdu \notin 0..8 => (~result.ok /\ result.err = "InvalidPduType")

(* C8: a v3 header whose msgFlags is not exactly one octet is rejected     *)
(* with InvalidHeaderData; on success msg_flags is that octet.             *)
C8_MsgFlagsOneOctet ==
    (/\ entry \in {"parse_snmp_v3", Generic}
     /\ shape.env = "v3" /\ Framed /\ shape.version = 3) =>
      /\ Len(shape.flags) # 1 => (~result.ok /\ result.err = "InvalidHeaderData")
      /\ result.ok => V3Msg.header_data.msg_flags = shape.flags[1]

(* C9: in a returned v3 message, data is Encrypted iff the privacy bit of  *)
(* msg_flags is set, and Encrypted carries the whole content of the fourth *)
(* element; with the privacy bit set an OCTET STRING of any content is     *)
(* accepted without being decoded.                                         *)
C9_EncryptedIffPrivacy ==
    /\ ReturnedV3 =>
         /\ (V3Msg.data.t = "Encrypted") <=> PrivacyBit(V3Msg.header_data.msg_flags)
         /\ V3Msg.data.t = "Encrypted" => V3Msg.data.bytes = FourthContent
    /\ (/\ entry \in {"parse_snmp_v3", Generic}
        /\ shape.env = "v3" /\ Framed /\ shape.version = 3
        /\ shape.secp = "usm"
        /\ Len(shape.flags) = 1 /\ PrivacyBit(shape.flags[1])
        /\ shape.fourth \in {"blob", "blobOfPdu", "emptyBlob"}) =>
         result.ok

(* C9 witness: parse_snmp_v3 returned Encrypted for an OCTET STRING whose  *)
(* content is itself an encoded scoped PDU.                                *)
C9_Witness ==
    /\ entry = "parse_snmp_v3" /\ result.ok
    /\ result.val.data.t = "Encrypted"
    /\ shape.fourth = "blobOfPdu"

(* C10: with the privacy bit clear, a well-formed scoped PDU is returned   *)
(* as Plaintext whose data is a typed PDU decoded by the v2c dispatcher,   *)
(* and a malformed scoped PDU sequence fails with InvalidScopedPduData.    *)
C10_PlaintextScopedPdu ==
    (/\ entry \in {"parse_snmp_v3", Generic}
     /\ shape.env = "v3" /\ Framed /\ shape.version = 3
     /\ shape.secp = "usm"
     /\ Len(shape.flags) = 1 /\ ~PrivacyBit(shape.flags[1])) =>
      /\ shape.fourth \in {"scoped", "scopedTrap"} =>
           /\ result.ok
           /\ V3Msg.data.t = "Plaintext"
           /\ V3Msg.data.data.t \in {"Generic", "Bulk", "TrapV1"}
           /\ pdu_type(V3Msg.data.data) = (IF shape.fourth = "scoped" THEN 0 ELSE 4)
      /\ shape.fourth \in {"twoElements", "nullId", "set", "integer"} =>
           (~result.ok /\ result.err = "InvalidScopedPduData")

-----------------------------------------------------------------------------
(* Properties of the values, VarBinds and PDUs of community messages       *)

(* A whole v3 message of version 3 with a one-octet msgFlags, handed to    *)
(* one of the two entry points that decode v3.                             *)
V3Call ==
    /\ entry \in {"parse_snmp_v3", Generic}
    /\ shape.env = "v3" /\ Framed /\ shape.version = 3
    /\ Len(shape.flags) = 1

(* The content of msgSecurityParameters in the datagram. *)
SecParamsContent == IF shape.secp = "usm" THEN UsmBlob ELSE <<1, 2>>

(* The variant of security_params in a returned v3 message; parse_snmp_v3  *)
(* returns a plain slice, which has no variant.                            *)
SecParamsVariant == IF entry = Generic THEN V3Msg.security_params.t ELSE "Slice"

(* C11: in a returned v3 message security_params is the USM variant iff    *)
(* msg_security_model is 3; with security model 3 and parameters that are  *)
(* not UsmSecurityParameters the decoder fails with InvalidSecurityModel;  *)
(* with another security model the bytes are returned verbatim as Raw.     *)
C11_SecurityParams ==
    /\ ReturnedV3 =>
         ((SecParamsVariant = "USM") <=> (V3Msg.header_data.msg_security_model = U(3)))
    /\ (V3Call /\ shape.model = 3 /\ shape.secp = "junk") =>
         (~result.ok /\ result.err = "InvalidSecurityModel")
    /\ (V3Call /\ shape.model # 3) =>
         /\ result.ok
         /\ SecParamsVariant = "Raw"
         /\ V3Msg.security_params.bytes = SecParamsContent

(* A whole community message handed to an entry point that decodes its     *)
(* version.                                                                *)
CommunityCall ==
    /\ shape.env = "community" /\ Framed
    /\ \/ entry = "parse_snmp_v1" /\ shape.version = 0
       \/ entry = "parse_snmp_v2c" /\ shape.version = 1
       \/ entry = Generic /\ shape.version \in {0, 1}

(* The community message returned. *)
Msg == IF entry = Generic THEN result.val.msg ELSE result.val

(* The value element of the last VarBind was chosen by the shape. *)
ValueCall == CommunityCall /\ shape.val # <<>>

ValClass == shape.val[1] \div 64

ValTag == shape.val[1] % 32

ValPrimitive == (shape.val[1] \div 32) % 2 = 0

ValContent == Drop(shape.val, 1)

(* The call returned a PDU with one variable for each VarBind of the       *)
(* datagram.                                                               *)
DecodedLast == result.ok /\ Len(vars_iter(Msg.pdu)) = shape.nvb

(* The variable decoded from the last VarBind. *)
LastVar == vars_iter(Msg.pdu)[shape.nvb]

(* C12: the value of a VarBind with a context-specific tag 0, 1 or 2       *)
(* decodes to NoSuchObject, NoSuchInstance or EndOfMibView, any other      *)
(* context-specific tag makes the VarBind fail, and a universal NULL       *)
(* decodes to Unspecified.                                                 *)
C12_VarBindChoice ==
    ValueCall =>
      /\ (ValClass = ClassContext /\ ValTag \in 0..2 /\ ValContent = <<>>) =>
           /\ DecodedLast
           /\ LastVar.val.t = (CASE ValTag = 0 -> "NoSuchObject"
                                 [] ValTag = 1 -> "NoSuchInstance"
                                 [] ValTag = 2 -> "EndOfMibView")
      /\ (ValClass = ClassContext /\ ValTag \notin 0..2) => ~DecodedLast
      /\ shape.val = <<TagNull>> => (DecodedLast /\ LastVar.val.t = "Unspecified")

(* C13: a VarBindList whose body holds bytes that are not part of a        *)
(* well-formed VarBind, after the last VarBind or as a malformed VarBind   *)
(* after valid ones, makes decoding fail.                                  *)
C13_ListBodyExhausted ==
    /\ (CommunityCall /\ shape.listtail # <<>>) => ~result.ok
    /\ (ValueCall /\ shape.val[1] = 64 /\ Len(ValContent) # 4) => ~result.ok

(* The decoding of the value of the k-th VarBind of EncVarBinds. *)
DecodedValue(k) ==
    CASE (k - 1) % 3 = 0 -> [t |-> "Empty"]
      [] (k - 1) % 3 = 1 -> [t |-> "Number", bytes |-> <<7>>]
      [] (k - 1) % 3 = 2 -> [t |-> "TimeTicks", v |-> <<9>>]

Fits(c, n) == Len(trim(c)) <= n

(* C15: a primitive application-class value whose content suits its type   *)
(* decodes by the tag matrix: 0 IpAddress, 1 Counter32, 2 Gauge32,         *)
(* 3 TimeTicks, 4 Opaque, 5 NsapAddress, 6 Counter64, 7 UInteger32, and    *)
(* any other tag UnknownApplication with the tag and the content kept.     *)
C15_ApplicationMatrix ==
    (/\ ValueCall /\ ValClass = ClassApplication /\ ValPrimitive
     /\ ValTag = 0 => Len(ValContent) = 4
     /\ ValTag \in {1, 2, 3, 7} => Fits(ValContent, U32Bytes)
     /\ ValTag = 6 => Fits(ValContent, U64Bytes)) =>
      /\ DecodedLast
      /\ LastVar.val =
           (CASE ValTag = 0 -> [t |-> "IpAddress", addr |-> ValContent]
              [] ValTag = 1 -> [t |-> "Counter32", v |-> trim(ValContent)]
              [] ValTag = 2 -> [t |-> "Gauge32", v |-> trim(ValContent)]
              [] ValTag = 3 -> [t |-> "TimeTicks", v |-> trim(ValContent)]
              [] ValTag = 4 -> [t |-> "Opaque", tag |-> 4, bytes |-> ValContent]
              [] ValTag = 5 -> [t |-> "NsapAddress", tag |-> 5, bytes |-> ValContent]
              [] ValTag = 6 -> [t |-> "Counter64", v |-> trim(ValContent)]
              [] ValTag = 7 -> [t |-> "UInteger32", v |-> trim(ValContent)]
              [] OTHER -> [t |-> "UnknownApplication", tag |-> ValTag,
                           bytes |-> ValContent])

(* C15 witness: a value of application tag 9 with content was returned as  *)
(* UnknownApplication.                                                     *)
C15_Witness ==
    /\ ValueCall /\ DecodedLast
    /\ shape.val[1] = 73 /\ ValContent # <<>>
    /\ LastVar.val.t = "UnknownApplication"

(* C16: a universal INTEGER decodes to Number, an OCTET STRING of any      *)
(* length, zero included, to String, an OID to Object, a BIT STRING to     *)
(* BitString, NULL to Empty, another universal type with content to        *)
(* UnknownSimple; a zero-length element of an unknown universal tag is     *)
(* Empty, and one of the context-specific or private class is not.         *)
C16_UniversalSyntax ==
    ValueCall =>
      /\ (ValClass = ClassUniversal /\ ValTag = TagOctetString) =>
           (DecodedLast /\ LastVar.val = [t |-> "String", bytes |-> ValContent])
      /\ (ValClass = ClassUniversal /\ ValTag = TagInteger) =>
           (DecodedLast /\ LastVar.val = [t |-> "Number", bytes |-> ValContent])
      /\ (ValClass = ClassUniversal /\ ValTag = TagOid) =>
           (DecodedLast /\ LastVar.val = [t |-> "Object", bytes |-> ValContent])
      /\ (ValClass = ClassUniversal /\ ValTag = TagBitString) =>
           (DecodedLast /\ LastVar.val = [t |-> "BitString", bytes |-> ValContent])
      /\ shape.val \in {<<TagNull>>, <<9>>} => (DecodedLast /\ LastVar.val = [t |-> "Empty"])
      /\ (ValClass = ClassUniversal /\ ValTag \in {1, TagSequence}) =>
           (DecodedLast /\ LastVar.val.t = "UnknownSimple")
      /\ (ValClass \in {ClassContext, 3} /\ ValContent = <<>>) =>
           ~(DecodedLast /\ LastVar.val.t = "Empty")

(* C17: an [APPLICATION 0] address is decoded only from a content of       *)
(* exactly 4 octets, and is those octets in order, as the value of a       *)
(* VarBind and as the agent-addr of a Trap-v1 PDU; with a content of       *)
(* another length no address is returned.                                  *)
C17_AddressFourOctets ==
    /\ (ValueCall /\ shape.val[1] = 64) =>
         IF Len(ValContent) = 4
         THEN DecodedLast /\ LastVar.val = [t |-> "IpAddress", addr |-> ValContent]
         ELSE ~DecodedLast
    /\ (CommunityCall /\ shape.pdu = 4 /\ shape.pducls = 2
        /\ shape.val = <<>> /\ Fits(shape.gtrap, U32Bytes)) =>
         IF Len(shape.addr) = 4
         THEN result.ok /\ Msg.pdu.agent_addr = shape.addr
         ELSE ~result.ok

(* C17 witness: a Trap-v1 PDU whose agent-addr has more than 4 octets was  *)
(* rejected.                                                               *)
C17_Witness ==
    /\ CommunityCall /\ shape.pdu = 4 /\ shape.pducls = 2
    /\ Len(shape.addr) > 4
    /\ ~result.ok

(* C18: a request-id, a Counter32, Gauge32, TimeTicks or UInteger32 value  *)
(* and msgMaxSize are decoded only when the INTEGER content fits in u32,   *)
(* a Counter64 only when it fits in u64, and the decoded number is the     *)
(* value of the big-endian content.                                        *)
C18_NoWrap ==
    /\ (CommunityCall /\ shape.pdu # 4 /\ shape.pdu <= 8) =>
         /\ result.ok => (Msg.pdu.req_id = trim(shape.reqid) /\ Fits(shape.reqid, U32Bytes))
         /\ ~Fits(shape.reqid, U32Bytes) => ~result.ok
    /\ (ValueCall /\ shape.val[1] \in {65, 66, 67, 71}) =>
         /\ DecodedLast => (LastVar.val.v = trim(ValContent) /\ Fits(ValContent, U32Bytes))
         /\ ~Fits(ValContent, U32Bytes) => ~DecodedLast
    /\ (ValueCall /\ shape.val[1] = 70) =>
         /\ DecodedLast => (LastVar.val.v = trim(ValContent) /\ Fits(ValContent, U64Bytes))
         /\ ~Fits(ValContent, U64Bytes) => ~DecodedLast
    /\ V3Call =>
         /\ result.ok => /\ V3Msg.header_data.msg_max_size = trim(shape.maxsize)
                         /\ Fits(shape.maxsize, U32Bytes)
         /\ ~Fits(shape.maxsize, U32Bytes) => ~result.ok

(* C18 witness: a PDU whose request-id is 2^32 was rejected. *)
C18_Witness ==
    /\ CommunityCall /\ shape.pdu \in {0, 5} /\ shape.pducls = 2
    /\ shape.reqid = <<1, 0, 0, 0, 0>>
    /\ ~result.ok

(* C19: the generic-trap of a Trap-v1 PDU is decoded only when it is in    *)
(* 0..255, and is then that value; a generic-trap of 256 or more makes the *)
(* PDU fail.                                                               *)
C19_TrapTypeNarrowing ==
    (CommunityCall /\ shape.pdu = 4) =>
      /\ result.ok => U(Msg.pdu.generic_trap) = trim(shape.gtrap)
      /\ ~Fits(shape.gtrap, 1) => ~result.ok

(* C20: the PDU dispatchers decode a PDU only when its header is of the    *)
(* context-specific class: a header of an allowed tag number and of the    *)
(* universal, application or private class is rejected.                    *)
C20_PduClassGating ==
    (CommunityCall /\ shape.pdu \in 0..8 /\ shape.pducls # ClassContext) => ~result.ok

-----------------------------------------------------------------------------
(* Properties across the entry points                                      *)

(* The dispatcher returned the variant exactly when r, the result of the   *)
(* version's own entry point on the same buffer, is Ok, with the same      *)
(* remainder and the same message.                                         *)
Agree(variant, r) ==
    IF result.ok /\ result.val.t = variant
    THEN r.ok /\ r.rem = result.rem /\ r.val = result.val.msg
    ELSE ~r.ok

(* C21: on every buffer the dispatcher returns V1(m), V2(m) or V3(m) with  *)
(* remainder rem exactly when parse_snmp_v1, parse_snmp_v2c or             *)
(* parse_snmp_v3 returns Ok(rem, m) on that buffer.                        *)
C21_EntryPointAgreement ==
    entry = Generic =>
      /\ Agree("V1", parse_snmp_v1(input))
      /\ Agree("V2", parse_snmp_v2c(input))
      /\ Agree("V3", parse_snmp_v3(input))

(* C22: a PDU whose header declares a length other than that of its body   *)
(* fields is rejected.                                                     *)
C22_PduLengthConfinement ==
    (CommunityCall /\ shape.pduskew # 0) => ~result.ok

(* C23: the loop of the VarBindList ends on every list body: an iteration  *)
(* that goes on has strictly fewer unread bytes than the one before it,    *)
(* the iteration that ends the loop reads and pushes nothing, the number   *)
(* of variables collected never exceeds the length of the body, and the    *)
(* loop eventually returns.                                                *)
C23_Termination ==
    /\ [][pc' = "many0" => (Len(unread') < Len(unread) /\ Len(res') = Len(res) + 1)]_vars
    /\ [][pc' = "done" => UNCHANGED <<unread, res>>]_vars
    /\ [](Len(res) + Len(unread) <= Len(input))
    /\ <>(pc = "done")

(* C23 witness: the loop ended after two iterations at bytes that are not  *)
(* a VarBind.                                                              *)
C23_Witness ==
    /\ pc = "done" /\ result.ok
    /\ Len(res) >= 2 /\ Len(unread) > 0

=============================================================================
